---- MODULE Spec2Model ----
(***************************************************************************)
(* Service-health event materialization of the catalog state store:        *)
(* agent/consul/state/stream_event_service_health.go.                      *)
(*                                                                         *)
(* txnServiceHealthEvents reduces the ops of one transaction to a map      *)
(* node -> deregister, expands every map entry into events (a deregister   *)
(* event, or one register event per CheckServiceNode of the node) and      *)
(* sorts the events.  checkServiceNodesToServiceHealth builds the register *)
(* events, into a slice or one Append at a time into an event buffer.      *)
(*                                                                         *)
(* Strings are sequences of byte values, compared as Go compares strings.  *)
(***************************************************************************)
EXTENDS Integers, Sequences, FiniteSets, TLC

VARIABLES ops, snap, idx, pc, i, nodes, todo, events, ret, calls, run, prev,
          writers, buf, call, loopSt, entry, out

vars == <<ops, snap, idx, pc, i, nodes, todo, events, ret, calls, run, prev,
          writers, buf, call, loopSt, entry, out>>

txnVars == <<ops, snap, idx, pc, i, nodes, todo, events, ret, calls, run, prev>>

bufVars == <<writers, buf>>

callVars == <<call, loopSt, entry, out>>

(***************************************************************************)
(* Bounds of the model.                                                    *)
(***************************************************************************)
\* Longest batch of ops of one transaction.
MaxOps == 2

\* Concurrent calls that append to one event buffer.
NWriters == 2

(***************************************************************************)
(* Strings.                                                                *)
(***************************************************************************)
EmptyStr == <<>>

\* "a"
NodeA == <<97>>

\* "z"
NodeZ == <<122>>

\* "svc1"
Svc1 == <<115, 118, 99, 49>>

\* "web"
Web == <<119, 101, 98>>

\* Go's < on strings: bytewise lexicographic, a proper prefix is smaller.
StrLess(a, b) ==
    \E k \in 1..Len(b) :
        /\ k <= Len(a) + 1
        /\ \A j \in 1..(k - 1) : a[j] = b[j]
        /\ (k = Len(a) + 1 \/ a[k] < b[k])

NodeNames == {EmptyStr, NodeA, NodeZ}

(***************************************************************************)
(* structs.TxnOp: at most one of Node, Service, Check is set; an op with   *)
(* none of them set (a KV op, say) has kind "None".                        *)
(***************************************************************************)
VerbGet == "get"

VerbSet == "set"

VerbDelete == "delete"

VerbDeleteCAS == "delete-cas"

Verbs == {VerbGet, VerbSet, VerbDelete, VerbDeleteCAS}

NoneOp == [kind |-> "None", verb |-> VerbSet, node |-> EmptyStr]

TxnOpValues ==
    [kind : {"Node", "Service", "Check"}, verb : Verbs, node : NodeNames]
        \cup {NoneOp}

RECURSIVE SeqsUpTo(_, _)
SeqsUpTo(S, n) ==
    IF n = 0 THEN {<<>>}
    ELSE LET shorter == SeqsUpTo(S, n - 1)
         IN  shorter \cup {Append(s, x) : s \in {t \in shorter : Len(t) = n - 1}, x \in S}

(***************************************************************************)
(* structs.CheckServiceNode (a health view) and the resolver's snapshot.   *)
(***************************************************************************)
\* A nil *structs.NodeService.
NilService == [present |-> FALSE, id |-> EmptyStr, name |-> EmptyStr]

NodeService(id, name) == [present |-> TRUE, id |-> id, name |-> name]

CheckServiceNode(node, service, checks) ==
    [node |-> node, service |-> service, checks |-> checks]

NoError == "nil"

Resolved(views) == [views |-> views, err |-> NoError]

Failed(err) == [views |-> <<>>, err |-> err]

\* Node a: a named service listed before the bare node; z: the bare node;
\* "": the bare node and a service whose name is empty.
SnapOrder ==
    [n \in NodeNames |->
        CASE n = NodeA -> Resolved(<<CheckServiceNode(NodeA, NodeService(Svc1, Svc1), {"svc1-up"}),
                                     CheckServiceNode(NodeA, NilService, {"serfHealth"})>>)
          [] n = NodeZ -> Resolved(<<CheckServiceNode(NodeZ, NilService, {"serfHealth"})>>)
          [] OTHER     -> Resolved(<<CheckServiceNode(EmptyStr, NilService, {}),
                                     CheckServiceNode(EmptyStr, NodeService(Svc1, EmptyStr), {})>>)]

\* Node a: two instances of service web; the lookups of z and of "" fail,
\* each with its own error.
SnapTies ==
    [n \in NodeNames |->
        CASE n = NodeA -> Resolved(<<CheckServiceNode(NodeA, NodeService(<<119, 50>>, Web), {}),
                                     CheckServiceNode(NodeA, NodeService(<<119, 49>>, Web), {"web-up"})>>)
          [] n = NodeZ -> Failed("errZ")
          [] OTHER     -> Failed("errEmpty")]

Snapshots == {SnapOrder, SnapTies}

\* Commit index of the transaction handed to txnServiceHealthEvents.
TxnIndexes == {7}

\* Commit indexes of the calls that append to the event buffer.
Indexes == 1..NWriters

\* The lists of views handed to checkServiceNodesToServiceHealth.
ViewLists == {SnapOrder[n].views : n \in NodeNames} \cup {<<>>}

(***************************************************************************)
(* stream.Event and its constructors.                                      *)
(***************************************************************************)
TopicServiceHealth == "ServiceHealth"

TopicServiceHealthConnect == "ServiceHealthConnect"

OpRegister == "Register"

OpDeregister == "Deregister"

\* stream.ToCheckServiceNode: the view, field by field, as a stream message.
ToCheckServiceNode(n) ==
    [node |-> n.node, service |-> n.service, checks |-> n.checks]

\* A nil *stream.EventBuffer, and a buffer holding items.
NilBuffer == [present |-> FALSE, items |-> <<>>]

Buffer(items) == [present |-> TRUE, items |-> items]

\* EventBuffer.Append: the events are added at the end in one atomic step.
BufferAppend(b, evs) == [b EXCEPT !.items = b.items \o evs]

\* The connect flag is ignored.
RegisterEventPlainTopic(index, n, connect) ==
    [topic |-> TopicServiceHealth,
     index |-> index,
     key   |-> IF n.service.present THEN n.service.name ELSE EmptyStr,
     op    |-> OpRegister,
     csn   |-> ToCheckServiceNode(n)]

\* The event built for one CheckServiceNode.
RegisterEventIndexZero(index, n, connect) ==
    [topic |-> IF connect THEN TopicServiceHealthConnect ELSE TopicServiceHealth,
     index |-> 0,
     key   |-> IF n.service.present THEN n.service.name ELSE EmptyStr,
     op    |-> OpRegister,
     csn   |-> ToCheckServiceNode(n)]

RegisterEvent(index, n, connect) ==
    [topic |-> IF connect THEN TopicServiceHealthConnect ELSE TopicServiceHealth,
     index |-> index,
     key   |-> IF n.service.present THEN n.service.name ELSE EmptyStr,
     op    |-> OpRegister,
     csn   |-> ToCheckServiceNode(n)]

\* With a buffer the event is appended to the slice as well.
LoopIterationKeepsCopy(st, index, n, connect) ==
    LET event == [topic |-> IF connect THEN TopicServiceHealthConnect ELSE TopicServiceHealth,
                  index |-> index,
                  key   |-> IF n.service.present THEN n.service.name ELSE EmptyStr,
                  op    |-> OpRegister,
                  csn   |-> ToCheckServiceNode(n)]
    IN  IF st.buf.present
        THEN [st EXCEPT !.buf = BufferAppend(st.buf, <<event>>),
                        !.events = Append(st.events, event)]
        ELSE [st EXCEPT !.events = Append(st.events, event)]

\* With a buffer the event is appended before its key is set.
LoopIterationAppendsEarly(st, index, n, connect) ==
    LET event == [topic |-> IF connect THEN TopicServiceHealthConnect ELSE TopicServiceHealth,
                  index |-> index,
                  key   |-> IF n.service.present THEN n.service.name ELSE EmptyStr,
                  op    |-> OpRegister,
                  csn   |-> ToCheckServiceNode(n)]
    IN  IF st.buf.present
        THEN [st EXCEPT !.buf = BufferAppend(st.buf, <<[event EXCEPT !.key = EmptyStr]>>)]
        ELSE [st EXCEPT !.events = Append(st.events, event)]

\* One iteration of the loop of checkServiceNodesToServiceHealth.
LoopIteration(st, index, n, connect) ==
    LET event == RegisterEvent(index, n, connect)
    IN  IF st.buf.present
        THEN [st EXCEPT !.buf = BufferAppend(st.buf, <<event>>)]
        ELSE [st EXCEPT !.events = Append(st.events, event)]

RECURSIVE RangeViews(_, _, _, _, _)
RangeViews(st, index, ns, k, connect) ==
    IF k > Len(ns) THEN st
    ELSE RangeViews(LoopIteration(st, index, ns[k], connect), index, ns, k + 1, connect)

checkServiceNodesToServiceHealth(index, ns, b, connect) ==
    RangeViews([events |-> <<>>, buf |-> b], index, ns, 1, connect)

\* The events are asked for on the connect topic.
nodeServiceHealthConnect(s, index, nodeName) ==
    IF s[nodeName].err # NoError
    THEN [events |-> <<>>, err |-> s[nodeName].err]
    ELSE [events |-> checkServiceNodesToServiceHealth(index, s[nodeName].views, NilBuffer, TRUE).events,
          err    |-> NoError]

nodeServiceHealth(s, index, nodeName) ==
    IF s[nodeName].err # NoError
    THEN [events |-> <<>>, err |-> s[nodeName].err]
    ELSE [events |-> checkServiceNodesToServiceHealth(index, s[nodeName].views, NilBuffer, FALSE).events,
          err    |-> NoError]

serviceHealthDeregisterEvent(index, node) ==
    [topic |-> TopicServiceHealth,
     index |-> index,
     key   |-> EmptyStr,
     op    |-> OpDeregister,
     csn   |-> [node |-> node, service |-> NilService, checks |-> {}]]

(***************************************************************************)
(* The reduction of the ops to the map nodes.                              *)
(***************************************************************************)
EmptyMap == [n \in {} |-> FALSE]

\* The write sets every entry of the map to the value.
MapSetOverwritesAll(m, k, v) == [n \in DOMAIN m \cup {k} |-> v]

MapSet(m, k, v) == [n \in DOMAIN m \cup {k} |-> IF n = k THEN v ELSE m[n]]

IsNodeDelete(verb) == verb = VerbDelete \/ verb = VerbDeleteCAS

\* A delete of the node is never overwritten by a later write.
ReduceOpSticky(m, op) ==
    CASE op.kind = "Node" ->
            IF op.verb = VerbGet THEN m
            ELSE MapSet(m, op.node, IsNodeDelete(op.verb) \/ (op.node \in DOMAIN m /\ m[op.node]))
      [] op.kind \in {"Service", "Check"} ->
            IF op.verb = VerbGet THEN m
            ELSE MapSet(m, op.node, op.node \in DOMAIN m /\ m[op.node])
      [] OTHER -> m

\* A get is recorded like a write.
ReduceOpGetTouches(m, op) ==
    CASE op.kind = "Node" -> MapSet(m, op.node, IsNodeDelete(op.verb))
      [] op.kind \in {"Service", "Check"} -> MapSet(m, op.node, FALSE)
      [] OTHER -> m

\* An op without a node name is dropped.
ReduceOpDropsEmpty(m, op) ==
    CASE op.kind = "Node" ->
            IF op.verb = VerbGet \/ op.node = EmptyStr THEN m
            ELSE MapSet(m, op.node, IsNodeDelete(op.verb))
      [] op.kind \in {"Service", "Check"} ->
            IF op.verb = VerbGet \/ op.node = EmptyStr THEN m
            ELSE MapSet(m, op.node, FALSE)
      [] OTHER -> m

\* The body of the loop over the ops.
ReduceOp(m, op) ==
    CASE op.kind = "Node" ->
            IF op.verb = VerbGet THEN m
            ELSE MapSet(m, op.node, IsNodeDelete(op.verb))
      [] op.kind \in {"Service", "Check"} ->
            IF op.verb = VerbGet THEN m
            ELSE MapSet(m, op.node, FALSE)
      [] OTHER -> m

(***************************************************************************)
(* The expansion of the map into events, and the sort.                     *)
(***************************************************************************)
\* The lookup is skipped for no node.
DeregisterNever(n) == FALSE

\* The value the range over the map yields for key n.
Deregister(n) == nodes[n]

\* The range yields the same key again.
RestRevisits(t, n) == t

\* The keys the range over the map has still to yield.
Rest(t, n) == t \ {n}

\* The events built so far are returned with the error.
ErrReturnPartial(evs, err) == [events |-> evs, err |-> err]

\* return nil, err
ErrReturn(evs, err) == [events |-> <<>>, err |-> err]

\* The service is left out of the comparison.
LessNodeOnly(x, y) == StrLess(x.csn.node, y.csn.node)

\* The less function handed to sort.Slice.
Less(x, y) ==
    LET a == x.csn
        b == y.csn
        svcA == IF a.service.present THEN a.service.name ELSE EmptyStr
        svcB == IF b.service.present THEN b.service.name ELSE EmptyStr
    IN  IF a.node # b.node THEN StrLess(a.node, b.node) ELSE StrLess(svcA, svcB)

\* sort.Slice is not stable: any arrangement of the slice that less accepts.
SortSlice(evs) ==
    {s \in {[k \in 1..Len(evs) |-> evs[p[k]]] : p \in Permutations(1..Len(evs))} :
        \A k \in 1..Len(s), l \in 1..Len(s) : k < l => ~Less(s[l], s[k])}

NoCalls == [n \in NodeNames |-> 0]

NotReturned == [events |-> <<>>, err |-> NoError]

\* No writer is appending to a buffer.
IdleBuf ==
    /\ writers = [w \in {} |-> 0]
    /\ buf = NilBuffer

\* No single call of checkServiceNodesToServiceHealth is followed.
IdleCall ==
    /\ call = [pc |-> "idle", index |-> 0, views |-> <<>>, connect |-> FALSE, k |-> 1]
    /\ loopSt = [events |-> <<>>, buf |-> NilBuffer]
    /\ entry = NilBuffer
    /\ out = <<>>

\* No transaction is materialized.
IdleTxn ==
    /\ ops = <<>>
    /\ snap = SnapOrder
    /\ idx \in TxnIndexes
    /\ pc = "idle"
    /\ i = 1
    /\ nodes = EmptyMap
    /\ todo = {}
    /\ events = <<>>
    /\ ret = NotReturned
    /\ calls = NoCalls
    /\ run = 1
    /\ prev = NotReturned

Init ==
    /\ ops \in SeqsUpTo(TxnOpValues, MaxOps)
    /\ snap \in Snapshots
    /\ idx \in TxnIndexes
    /\ pc = "reduce"
    /\ i = 1
    /\ nodes = EmptyMap
    /\ todo = {}
    /\ events = <<>>
    /\ ret = NotReturned
    /\ calls = NoCalls
    /\ run = 1
    /\ prev = NotReturned
    /\ IdleBuf
    /\ IdleCall

\* for _, op := range ops: one op.
Reduce ==
    /\ pc = "reduce"
    /\ i <= Len(ops)
    /\ nodes' = ReduceOp(nodes, ops[i])
    /\ i' = i + 1
    /\ UNCHANGED <<ops, snap, idx, pc, todo, events, ret, calls, run, prev, bufVars, callVars>>

\* The end of the ops: the range over the map starts.
StartExpand ==
    /\ pc = "reduce"
    /\ i > Len(ops)
    /\ pc' = "expand"
    /\ todo' = DOMAIN nodes
    /\ UNCHANGED <<ops, snap, idx, i, nodes, events, ret, calls, run, prev, bufVars, callVars>>

\* for node, deregister := range nodes: one key, in any order.
ExpandNode(n) ==
    /\ pc = "expand"
    /\ n \in todo
    /\ IF Deregister(n)
       THEN /\ events' = Append(events, serviceHealthDeregisterEvent(idx, n))
            /\ todo' = Rest(todo, n)
            /\ UNCHANGED <<pc, ret, calls>>
       ELSE LET r == nodeServiceHealth(snap, idx, n)
            IN  /\ calls' = [calls EXCEPT ![n] = @ + 1]
                /\ IF r.err # NoError
                   THEN /\ ret' = ErrReturn(events, r.err)
                        /\ pc' = "done"
                        /\ UNCHANGED <<events, todo>>
                   ELSE /\ events' = events \o r.events
                        /\ todo' = Rest(todo, n)
                        /\ UNCHANGED <<pc, ret>>
    /\ UNCHANGED <<ops, snap, idx, i, nodes, run, prev, bufVars, callVars>>

\* sort.Slice(events, less); return events, nil
SortAndReturn ==
    /\ pc = "expand"
    /\ todo = {}
    /\ \E s \in SortSlice(events) : ret' = [events |-> s, err |-> NoError]
    /\ pc' = "done"
    /\ UNCHANGED <<ops, snap, idx, i, nodes, todo, events, calls, run, prev, bufVars, callVars>>

Next ==
    \/ Reduce
    \/ StartExpand
    \/ \E n \in NodeNames : ExpandNode(n)
    \/ SortAndReturn

Spec == Init /\ [][Next]_vars

(***************************************************************************)
(* The same call made a second time, on the same ops and snapshot.         *)
(***************************************************************************)
Rerun ==
    /\ pc = "done"
    /\ run = 1
    /\ run' = 2
    /\ prev' = ret
    /\ pc' = "reduce"
    /\ i' = 1
    /\ nodes' = EmptyMap
    /\ todo' = {}
    /\ events' = <<>>
    /\ ret' = NotReturned
    /\ calls' = NoCalls
    /\ UNCHANGED <<ops, snap, idx, bufVars, callVars>>

NextRerun ==
    \/ Reduce
    \/ StartExpand
    \/ \E n \in NodeNames : ExpandNode(n)
    \/ SortAndReturn
    \/ Rerun

SpecRerun == Init /\ [][NextRerun]_vars

(***************************************************************************)
(* The call made a second time on the same snapshot with the ops in        *)
(* another order, one that keeps the order of the ops of every node.       *)
(***************************************************************************)
\* The ops of the batch that name node n.
OpsOf(batch, n) ==
    LET Names(op) == op.kind # "None" /\ op.node = n
    IN  SelectSeq(batch, Names)

\* The other orders of the batch in which the ops of each node keep theirs.
Reorderings(batch) ==
    {b \in {[k \in 1..Len(batch) |-> batch[p[k]]] : p \in Permutations(1..Len(batch))} :
        /\ b # batch
        /\ \A n \in NodeNames : OpsOf(b, n) = OpsOf(batch, n)}

RerunReordered ==
    /\ pc = "done"
    /\ run = 1
    /\ ops' \in Reorderings(ops)
    /\ run' = 2
    /\ prev' = ret
    /\ pc' = "reduce"
    /\ i' = 1
    /\ nodes' = EmptyMap
    /\ todo' = {}
    /\ events' = <<>>
    /\ ret' = NotReturned
    /\ calls' = NoCalls
    /\ UNCHANGED <<snap, idx, bufVars, callVars>>

NextReordered ==
    \/ Reduce
    \/ StartExpand
    \/ \E n \in NodeNames : ExpandNode(n)
    \/ SortAndReturn
    \/ RerunReordered

SpecReordered == Init /\ [][NextReordered]_vars

(***************************************************************************)
(* Concurrent calls of checkServiceNodesToServiceHealth on one buffer.     *)
(* Each call has its own index, views and connect flag; k is the view its  *)
(* loop handles next.  The calls interleave between two Appends.           *)
(***************************************************************************)
Writers == 1..NWriters

InitBuf ==
    /\ ops = <<>>
    /\ snap = SnapOrder
    /\ idx \in TxnIndexes
    /\ pc = "idle"
    /\ i = 1
    /\ nodes = EmptyMap
    /\ todo = {}
    /\ events = <<>>
    /\ ret = NotReturned
    /\ calls = NoCalls
    /\ run = 1
    /\ prev = NotReturned
    /\ writers \in [Writers -> [idx : Indexes, views : ViewLists, connect : BOOLEAN, k : {1}]]
    /\ \A v, w \in Writers : v # w => writers[v].idx # writers[w].idx
    /\ buf = Buffer(<<>>)
    /\ IdleCall

\* One iteration of the loop of call w: its next event is appended.
AppendNext(w) ==
    /\ writers[w].k <= Len(writers[w].views)
    /\ LET st == LoopIteration([events |-> <<>>, buf |-> buf], writers[w].idx,
                               writers[w].views[writers[w].k], writers[w].connect)
       IN  buf' = st.buf
    /\ writers' = [writers EXCEPT ![w].k = @ + 1]
    /\ UNCHANGED <<txnVars, callVars>>

NextBuf == \E w \in Writers : AppendNext(w)

SpecBuf == InitBuf /\ [][NextBuf]_vars

(***************************************************************************)
(* One call of checkServiceNodesToServiceHealth, an iteration of its loop  *)
(* at a time: loopSt holds the slice events and the buffer, entry the buffer   *)
(* as the call found it, out the slice the call returns.                   *)
(***************************************************************************)
\* The lists of views of a single call.
CallViews == ViewLists \cup {SnapTies[NodeA].views}

\* The buffer handed to the call: none, an empty one, one that holds an event.
EntryBuffers ==
    {NilBuffer, Buffer(<<>>), Buffer(<<serviceHealthDeregisterEvent(1, NodeZ)>>)}

InitCall ==
    /\ IdleTxn
    /\ IdleBuf
    /\ call \in [pc : {"loop"}, index : Indexes, views : CallViews, connect : BOOLEAN, k : {1}]
    /\ entry \in EntryBuffers
    /\ loopSt = [events |-> <<>>, buf |-> entry]
    /\ out = <<>>

\* for _, n := range nodes: one view.
Iterate ==
    /\ call.pc = "loop"
    /\ call.k <= Len(call.views)
    /\ loopSt' = LoopIteration(loopSt, call.index, call.views[call.k], call.connect)
    /\ call' = [call EXCEPT !.k = @ + 1]
    /\ UNCHANGED <<txnVars, bufVars, entry, out>>

\* return events
Return ==
    /\ call.pc = "loop"
    /\ call.k > Len(call.views)
    /\ out' = loopSt.events
    /\ call' = [call EXCEPT !.pc = "done"]
    /\ UNCHANGED <<txnVars, bufVars, entry, loopSt>>

NextCall == Iterate \/ Return

SpecCall == InitCall /\ [][NextCall]_vars

(***************************************************************************)
(* What the properties speak of, stated on the batch and the snapshot      *)
(* and not on the map the code builds.                                     *)
(***************************************************************************)
\* A mutation of a node, service or check whose verb is not a read.
IsWrite(op) == op.kind \in {"Node", "Service", "Check"} /\ op.verb # VerbGet

IsGet(op) == op.kind \in {"Node", "Service", "Check"} /\ op.verb = VerbGet

NotGet(op) == ~IsGet(op)

WritesTo(batch, n) == {k \in 1..Len(batch) : IsWrite(batch[k]) /\ batch[k].node = n}

NamedBy(batch) == {n \in NodeNames : WritesTo(batch, n) # {}}

LastWrite(batch, n) ==
    batch[CHOOSE k \in WritesTo(batch, n) : \A l \in WritesTo(batch, n) : l <= k]

\* The last write naming n deletes the node.
Removed(batch, n) ==
    /\ LastWrite(batch, n).kind = "Node"
    /\ LastWrite(batch, n).verb \in {VerbDelete, VerbDeleteCAS}

Intent(batch) == [n \in NamedBy(batch) |-> Removed(batch, n)]

Tombstones(evs, n) ==
    {k \in 1..Len(evs) : evs[k].op = OpDeregister /\ evs[k].csn.node = n}

Upserts(evs, n) ==
    {k \in 1..Len(evs) : evs[k].op = OpRegister /\ evs[k].csn.node = n}

\* One Upsert of evs for each view of n in the snapshot, and no other for n.
OneUpsertPerView(evs, n) ==
    /\ Cardinality(Upserts(evs, n)) = Len(snap[n].views)
    /\ \A v \in 1..Len(snap[n].views) :
          \E k \in Upserts(evs, n) :
              /\ evs[k].csn.service = snap[n].views[v].service
              /\ evs[k].csn.checks = snap[n].views[v].checks

LastWriteWins(evs) ==
    \A n \in NamedBy(ops) :
        IF Removed(ops, n)
        THEN Cardinality(Tombstones(evs, n)) = 1 /\ Upserts(evs, n) = {}
        ELSE Tombstones(evs, n) = {} /\ OneUpsertPerView(evs, n)

\* C1 as claimed: for every batch, the output holds exactly one Tombstone for
\* each node whose last non-Get mutation deletes the node and no Upsert for
\* it, and for every other named node no Tombstone and one Upsert per view
\* the Resolver returns for it.
C1_LastWriteWinsAlways == pc = "done" => LastWriteWins(ret.events)

\* C1 as amended: the same, for every call that returns no error.
C1_LastWriteWins ==
    (pc = "done" /\ ret.err = NoError) => LastWriteWins(ret.events)

\* A node delete followed by a service register of the same node came out as
\* the Upserts of the node.
C1_Witness ==
    /\ pc = "done"
    /\ ret.err = NoError
    /\ Len(ops) = 2
    /\ ops[1].kind = "Node" /\ ops[1].verb = VerbDelete
    /\ ops[2].kind = "Service" /\ ops[2].verb = VerbSet
    /\ ops[1].node = ops[2].node
    /\ Cardinality(Upserts(ret.events, ops[2].node)) = 2

SortKey(e) == <<e.csn.node, e.key>>

PairLess(p, q) == StrLess(p[1], q[1]) \/ (p[1] = q[1] /\ StrLess(p[2], q[2]))

\* C2: the returned events are in ascending order of (node identity, routing
\* key), an event without a service having the empty key.
C2_Sorted ==
    pc = "done" =>
        \A k \in 1..Len(ret.events), l \in 1..Len(ret.events) :
            k < l => ~PairLess(SortKey(ret.events[l]), SortKey(ret.events[k]))

\* Nodes z and a with services "" and svc1 came out as (a,""), (a,svc1),
\* (z,""), which is not the order they were built in.
C2_Witness ==
    /\ pc = "done"
    /\ Len(ret.events) = 3
    /\ SortKey(ret.events[1]) = <<NodeA, EmptyStr>>
    /\ SortKey(ret.events[2]) = <<NodeA, Svc1>>
    /\ SortKey(ret.events[3]) = <<NodeZ, EmptyStr>>
    /\ events[1].csn.node = NodeZ

\* C3: a second run on the same batch and snapshot returns the same sequence
\* of events as the first.
C3_Deterministic == (run = 2 /\ pc = "done") => ret.events = prev.events

\* The nodes the Resolver is asked for and fails on.
FailingNodes ==
    {n \in NamedBy(ops) : ~Removed(ops, n) /\ snap[n].err # NoError}

\* C4: when the Resolver fails for a touched node the call returns that error
\* and no event; otherwise it returns no error and every intent's events.
C4_AbortNoPartial ==
    pc = "done" =>
        IF FailingNodes # {}
        THEN /\ ret.events = <<>>
             /\ ret.err \in {snap[n].err : n \in FailingNodes}
        ELSE /\ ret.err = NoError
             /\ \A n \in NamedBy(ops) :
                   Cardinality(Tombstones(ret.events, n)) + Cardinality(Upserts(ret.events, n))
                       = IF Removed(ops, n) THEN 1 ELSE Len(snap[n].views)

\* The call failed after it had built events for another node.
C4_Witness ==
    /\ pc = "done"
    /\ ret.err # NoError
    /\ events # <<>>
    /\ ret.events = <<>>

\* C5: the Resolver is called at most once for a node in one run, and a
\* node's Upserts are one per view, however many mutations name the node.
C5_Dedup ==
    /\ \A n \in NodeNames : calls[n] <= 1
    /\ (pc = "done" /\ ret.err = NoError) =>
          \A n \in NodeNames : Cardinality(Upserts(ret.events, n)) <= Len(snap[n].views)

\* Two mutations named one node, which was resolved once.
C5_Witness ==
    /\ pc = "done"
    /\ \E n \in NodeNames :
          /\ Cardinality(WritesTo(ops, n)) >= 2
          /\ calls[n] = 1
          /\ Cardinality(Upserts(ret.events, n)) = 2

\* C6: the Resolver is never called for a node whose intent is removed, and
\* its Tombstone is built from the index and the node identity alone.
C6_TombstoneIndependence ==
    \A n \in NodeNames :
        (pc \in {"expand", "done"} /\ n \in DOMAIN nodes /\ nodes[n]) =>
            /\ calls[n] = 0
            /\ (pc = "done" /\ ret.err = NoError) =>
                  \E k \in 1..Len(ret.events) :
                      ret.events[k] =
                          [topic |-> TopicServiceHealth, index |-> idx, key |-> EmptyStr,
                           op |-> OpDeregister,
                           csn |-> [node |-> n, service |-> NilService, checks |-> {}]]

\* A removed node whose lookup would have failed got its Tombstone.
C6_Witness ==
    /\ pc = "done"
    /\ ret.err = NoError
    /\ \E n \in DOMAIN nodes :
          /\ nodes[n]
          /\ snap[n].err # NoError
          /\ Tombstones(ret.events, n) # {}

\* C7: a batch of Get mutations only returns no event and no error and calls
\* no Resolver; after any number of mutations of the batch the intents are
\* those of these mutations without the Gets among them.
C7_ReadOnlyNoOp ==
    /\ (pc = "done" /\ \A k \in 1..Len(ops) : IsGet(ops[k])) =>
          ret = [events |-> <<>>, err |-> NoError] /\ calls = NoCalls
    /\ pc = "reduce" =>
          nodes = Intent(SelectSeq(SubSeq(ops, 1, i - 1), NotGet))

\* Two Gets, one of a node whose lookup fails, returned nothing.
C7_Witness ==
    /\ pc = "done"
    /\ Len(ops) = 2
    /\ IsGet(ops[1]) /\ IsGet(ops[2])
    /\ snap[ops[1].node].err # NoError
    /\ ret.events = <<>>

LacksIdentity(op) == op.kind = "None" \/ op.node = EmptyStr

\* C8 as claimed: a mutation without an owning node identity makes the call
\* fail with a ContractViolation, and there is never an intent or a Resolver
\* call for the empty identity.
C8_FailsLoudly ==
    (pc = "done" /\ \E k \in 1..Len(ops) : LacksIdentity(ops[k])) =>
        /\ ret.err = "ContractViolation"
        /\ EmptyStr \notin DOMAIN nodes
        /\ calls[EmptyStr] = 0

\* C8 as amended: the call fails with Resolver errors only; a mutation with
\* no variant set leaves the intents as they are, and a write whose node
\* identity is empty gives the empty identity an intent and, unless removed,
\* one Resolver call.
C8_SilentlyReduced ==
    /\ ret.err \in {NoError} \cup {snap[n].err : n \in NodeNames}
    /\ pc = "done" =>
          /\ (EmptyStr \in DOMAIN nodes) = (\E k \in 1..Len(ops) : IsWrite(ops[k]) /\ ops[k].node = EmptyStr)
          /\ (\A k \in 1..Len(ops) : ops[k].kind = "None") => ret = [events |-> <<>>, err |-> NoError]
          /\ (ret.err = NoError /\ EmptyStr \in DOMAIN nodes /\ ~nodes[EmptyStr]) => calls[EmptyStr] = 1

\* A batch of an op with no variant and a write to the empty identity was
\* reduced and the empty identity resolved.
C8_Witness ==
    /\ pc = "done"
    /\ ret.err = NoError
    /\ Len(ops) = 2
    /\ ops[1].kind = "None"
    /\ IsWrite(ops[2]) /\ ops[2].node = EmptyStr
    /\ calls[EmptyStr] = 1

Position(evs, e) == CHOOSE k \in 1..Len(evs) : evs[k] = e

\* C9: two events with the same (node identity, routing key) are returned in
\* the order the expansion built them in.
C9_Stable ==
    (pc = "done" /\ ret.err = NoError) =>
        \A k \in 1..Len(events), l \in 1..Len(events) :
            (k < l /\ SortKey(events[k]) = SortKey(events[l]) /\ events[k] # events[l]) =>
                Position(ret.events, events[k]) < Position(ret.events, events[l])

Monotonic(items) ==
    \A k \in 1..Len(items), l \in 1..Len(items) :
        k < l => items[k].index <= items[l].index

\* C10 as claimed: whatever way the appends of concurrent calls interleave,
\* the indexes of the events in the buffer never decrease.
C10_MonotonicIndexes == Monotonic(buf.items)

\* The events in the buffer that carry the index of call w.
EventsOf(w) ==
    LET Own(e) == e.index = writers[w].idx
    IN  SelectSeq(buf.items, Own)

\* The buffer holds the events of the views call w has handled, in the order
\* of the views.
InViewOrder(w) ==
    /\ Len(EventsOf(w)) = writers[w].k - 1
    /\ \A j \in 1..(writers[w].k - 1) :
          /\ EventsOf(w)[j].csn.node = writers[w].views[j].node
          /\ EventsOf(w)[j].csn.service = writers[w].views[j].service
          /\ EventsOf(w)[j].csn.checks = writers[w].views[j].checks

\* No call has appended before a call with a smaller index has finished.
InCommitOrder ==
    \A v, w \in Writers :
        (writers[v].idx < writers[w].idx /\ writers[w].k > 1) =>
            writers[v].k > Len(writers[v].views)

\* C10 as amended: every append leaves each call's events in the buffer in
\* the order of its views under its own index, and keeps the indexes from
\* decreasing when the calls have run one after the other in index order.
C10_OrderedPerCall ==
    [][/\ \A w \in Writers : InViewOrder(w)'
       /\ (InCommitOrder /\ Monotonic(buf.items)) => Monotonic(buf.items)']_vars

\* The appends of two calls have interleaved.
C10_Witness ==
    \E a, b, c \in 1..Len(buf.items) :
        /\ a < b /\ b < c
        /\ buf.items[a].index = buf.items[c].index
        /\ buf.items[a].index # buf.items[b].index

\* The events the call has appended to the buffer it was handed.
Appended ==
    SubSeq(loopSt.buf.items, Len(entry.items) + 1, Len(loopSt.buf.items))

\* The events the call has built, wherever it put them.
Built == IF entry.present THEN Appended ELSE loopSt.events

\* Event e carries view v.
Carries(e, v) ==
    /\ e.csn.node = v.node
    /\ e.csn.service = v.service
    /\ e.csn.checks = v.checks

\* C11: with a buffer, every iteration appends the one event of its view
\* after those already in the buffer and the call returns an empty slice;
\* without a buffer nothing is appended and the call returns one event per
\* view, in the order of the views.
C11_BufferedEmission ==
    call.pc \in {"loop", "done"} =>
        IF entry.present
        THEN /\ loopSt.buf.present
             /\ Len(loopSt.buf.items) = Len(entry.items) + (call.k - 1)
             /\ SubSeq(loopSt.buf.items, 1, Len(entry.items)) = entry.items
             /\ \A j \in 1..(call.k - 1) : Carries(Appended[j], call.views[j])
             /\ loopSt.events = <<>>
             /\ call.pc = "done" => (out = <<>> /\ call.k - 1 = Len(call.views))
        ELSE /\ loopSt.buf = NilBuffer
             /\ Len(loopSt.events) = call.k - 1
             /\ \A j \in 1..(call.k - 1) : Carries(loopSt.events[j], call.views[j])
             /\ call.pc = "done" => (out = loopSt.events /\ Len(out) = Len(call.views))

\* A call with two views has appended two events after the one the buffer
\* held and returned an empty slice.
C11_Witness ==
    /\ call.pc = "done"
    /\ entry.present
    /\ Len(entry.items) = 1
    /\ Len(call.views) = 2
    /\ Len(loopSt.buf.items) = 3
    /\ out = <<>>

\* C12: the event built for a view has Op Register, the index of the call,
\* the service name as key when the view has a service and the empty key
\* otherwise, and the connect topic exactly when connect was asked for.
C12_UpsertConstruction ==
    call.pc \in {"loop", "done"} =>
        /\ Len(Built) = call.k - 1
        /\ \A j \in 1..Len(Built) :
              /\ Built[j].op = OpRegister
              /\ Built[j].index = call.index
              /\ Built[j].key = IF call.views[j].service.present
                                THEN call.views[j].service.name
                                ELSE EmptyStr
              /\ Built[j].topic = IF call.connect
                                  THEN TopicServiceHealthConnect
                                  ELSE TopicServiceHealth

\* A connect call has built the events of a view with a service and of a
\* view without one.
C12_Witness ==
    /\ call.pc = "done"
    /\ call.connect
    /\ Len(Built) = 2
    /\ Built[1].key = Svc1
    /\ Built[2].key = EmptyStr
    /\ ~call.views[2].service.present
    /\ Built[1].topic = TopicServiceHealthConnect

\* C13: for the same index, views and connect flag, the events a call appends
\* to a buffer are those a call without a buffer returns, in the same order.
C13_SinkEquivalence ==
    call.pc = "done" =>
        IF entry.present
        THEN Appended =
                checkServiceNodesToServiceHealth(call.index, call.views, NilBuffer, call.connect).events
        ELSE out =
                checkServiceNodesToServiceHealth(call.index, call.views, Buffer(<<>>), call.connect).buf.items

\* A call has appended the events of two views, one of them with a key, to
\* a buffer.
C13_Witness ==
    /\ call.pc = "done"
    /\ entry.present
    /\ Len(Appended) = 2
    /\ \E j \in 1..2 : Appended[j].key # EmptyStr
    /\ Appended[1] # Appended[2]

\* C14: a batch and a reordering of it that keeps the order of the mutations
\* of every node return the same sequence of events on the same snapshot.
C14_OrderIndependent ==
    run = 2 => (pc = "done" => prev.events = ret.events)

\* The node a mutation names, if it names one.
NamedByOp(op) == IF op.kind = "None" THEN {} ELSE {op.node}

\* C15: processing a mutation leaves the intent of every node it does not
\* name as it was, present or absent and removed or not; when the reduction
\* ends the map has an entry for exactly the nodes a non-Get mutation names.
C15_IntentIsolation ==
    [][/\ (pc = "reduce" /\ i' = i + 1) =>
             \A b \in NodeNames \ NamedByOp(ops[i]) :
                 /\ (b \in DOMAIN nodes') = (b \in DOMAIN nodes)
                 /\ b \in DOMAIN nodes => nodes'[b] = nodes[b]
       /\ (pc = "reduce" /\ pc' = "expand") => DOMAIN nodes' = NamedBy(ops')]_vars

\* A write to one node was processed after the delete of another, whose
\* intent is still removed.
C15_Witness ==
    /\ pc = "reduce"
    /\ i = 3
    /\ ops[1].kind = "Node" /\ ops[1].verb = VerbDelete
    /\ ops[2].kind = "Check" /\ ops[2].verb = VerbSet
    /\ ops[1].node # ops[2].node
    /\ DOMAIN nodes = {ops[1].node, ops[2].node}
    /\ nodes[ops[1].node]
    /\ ~nodes[ops[2].node]

\* C16: every returned event carries the commit index and the plain health
\* topic; a Tombstone has Op Deregister, an empty key, no service and no
\* checks, and names a node whose intent is removed.
C16_EventFields ==
    pc = "done" =>
        \A k \in 1..Len(ret.events) :
            /\ ret.events[k].index = idx
            /\ ret.events[k].topic = TopicServiceHealth
            /\ ret.events[k].op \in {OpRegister, OpDeregister}
            /\ ret.events[k].op = OpDeregister =>
                  /\ ret.events[k].key = EmptyStr
                  /\ ~ret.events[k].csn.service.present
                  /\ ret.events[k].csn.checks = {}
                  /\ ret.events[k].csn.node \in DOMAIN nodes
                  /\ nodes[ret.events[k].csn.node]
            /\ ret.events[k].op = OpRegister =>
                  /\ ret.events[k].csn.node \in DOMAIN nodes
                  /\ ~nodes[ret.events[k].csn.node]

\* A call returned the Upserts of one node and the Tombstone of another.
C16_Witness ==
    /\ pc = "done"
    /\ Len(ret.events) = 3
    /\ ret.events[1].op = OpRegister
    /\ ret.events[3].op = OpDeregister
    /\ ret.events[3].csn.node = NodeZ
    /\ ret.events[3].index = idx

====
